---------------------------- MODULE Spec2Model ----------------------------
(***************************************************************************)
(* Model of the ZKFile core SDK's encrypted-container codec                *)
(* (EncryptionService) and of the client paths that use it.                *)
(*                                                                         *)
(* Bytes are the integers 0..255 and byte arrays are sequences (offset k   *)
(* of the source is index k+1 here).  A password is the sequence of the    *)
(* UTF-16 code units of the JavaScript string.                             *)
(*                                                                         *)
(* The platform primitives the service calls are modelled as follows.      *)
(*  - crypto.getRandomValues: a nondeterministic choice among a bounded    *)
(*    pool of byte strings of the requested length; the same string may be *)
(*    returned twice.                                                      *)
(*  - PBKDF2-HMAC-SHA-256 (importKey + deriveKey): the password bytes are  *)
(*    turned into HMAC's key block (zero-padded to the 64-byte block, or   *)
(*    hashed first when longer); the derived key is an opaque,             *)
(*    non-extractable handle and is modelled as the term made of the key   *)
(*    block, the salt and the fixed parameters (an ideal PRF: two handles  *)
(*    are the same key iff the terms are equal).                           *)
(*  - AES-256-GCM (crypto.subtle.encrypt/decrypt): an ideal authenticated  *)
(*    cipher.  `sealed` records every (key, iv, plaintext, ciphertext) the *)
(*    cipher has produced; a new query gets a ciphertext of                *)
(*    Len(plaintext) + 16 bytes with a tag no earlier query got, and       *)
(*    decryption succeeds exactly on recorded (key, iv, ciphertext).       *)
(*  - any of these primitives may be unusable in the environment (no       *)
(*    secure context, an unreadable file ...): `faults` names the ones     *)
(*    that reject, each with an error of its own.                          *)
(***************************************************************************)
EXTENDS Integers, Sequences, FiniteSets, TLC

VARIABLES
    sealed,   \* the cipher's record of encrypt calls (ideal AES-GCM)
    encs,     \* the completed encryptFile calls, in order
    buf,      \* the transport buffer in flight (serialized blob)
    parts,    \* the result of splitEncryptedParts on buf
    rebuilt,  \* the result of combineEncryptedParts on parts
    res,      \* the result of the last decryptFile / download
    faults,   \* the platform primitives that reject in this environment
    programId,\* SolanaService.programId, Unset when none is configured
    store,    \* the storage service: the blob kept under each CID
    made,     \* the calls and requests the client call in progress made
    call,     \* the client or SolanaService call in progress, or the last
    tasks,    \* the concurrent calls on the EncryptionService
    locals    \* the variables the concurrent calls keep across an await

codecVars == <<sealed, encs, buf, parts, rebuilt, res>>

clientVars == <<programId, store, made, call>>

taskVars == <<tasks, locals>>

vars == <<codecVars, faults, clientVars, taskVars>>

---------------------------------------------------------------------------
(* Bounds of the model *)

MaxEncrypts == 2      \* encryptFile calls in one behaviour
MaxPlainLen == 2      \* longest plaintext, in bytes
MaxExtra    == 2      \* an arbitrary buffer has at most 28 + MaxExtra bytes
MaxCidLen   == 17     \* the longest CID the storage service returns
MaxCalls    == 3      \* concurrent calls on one EncryptionService

\* the random source returns one of two byte strings of each length
RandSeeds == {1, 2}

---------------------------------------------------------------------------
(* EncryptionService constants *)

ALGORITHM         == "AES-GCM"
KEY_LENGTH        == 256
IV_LENGTH         == 12
SALT_LENGTH       == 16
PBKDF2_ITERATIONS == 100000
TAG_LENGTH        == 128

HMAC_BLOCK == 64      \* block size of SHA-256, in bytes

None == [none |-> TRUE]

\* an unset optional string
Unset == ""

---------------------------------------------------------------------------
(* Bytes *)

Pow2(k) == 2 ^ k

BitAt(b, k) == (b \div Pow2(k)) % 2

\* b with bit k inverted
FlipBitOf(b, k) == IF BitAt(b, k) = 1 THEN b - Pow2(k) ELSE b + Pow2(k)

RECURSIVE XorBits(_, _, _)
XorBits(a, b, k) ==
    IF k < 0 THEN 0
    ELSE (((BitAt(a, k) + BitAt(b, k)) % 2) * Pow2(k)) + XorBits(a, b, k - 1)

Xor8(a, b) == XorBits(a, b, 7)

\* Uint8Array.prototype.slice(from, to) with 0-based from (inclusive) and
\* to (exclusive), both clamped to the length
Slice(s, from, to) ==
    LET lo == IF from > Len(s) THEN Len(s) ELSE from
        hi == IF to > Len(s) THEN Len(s) ELSE to
    IN  IF hi <= lo THEN <<>> ELSE [i \in 1..(hi - lo) |-> s[lo + i]]

Zeros(n) == [i \in 1..n |-> 0]


---------------------------------------------------------------------------
(* Platform primitives *)

\* crypto.getRandomValues(new Uint8Array(n)): the byte strings the random
\* source may return for length n
RandomBytes(n) == { [i \in 1..n |-> ((s * 16) + i) % 256] : s \in RandSeeds }

IsSurrogate(c)     == c >= 55296 /\ c <= 57343
IsHighSurrogate(c) == c >= 55296 /\ c <= 56319
IsLowSurrogate(c)  == c >= 56320 /\ c <= 57343

\* UTF-8 bytes of one code point
Utf8CodePoint(cp) ==
    IF cp < 128 THEN <<cp>>
    ELSE IF cp < 2048 THEN <<192 + (cp \div 64), 128 + (cp % 64)>>
    ELSE IF cp < 65536
         THEN <<224 + (cp \div 4096), 128 + ((cp \div 64) % 64),
                128 + (cp % 64)>>
         ELSE <<240 + (cp \div 262144), 128 + ((cp \div 4096) % 64),
                128 + ((cp \div 64) % 64), 128 + (cp % 64)>>

\* new TextEncoder().encode(password): a surrogate pair is one code point,
\* an unpaired surrogate is replaced by U+FFFD
RECURSIVE TextEncode(_)
TextEncode(s) ==
    IF s = <<>> THEN <<>>
    ELSE IF IsHighSurrogate(s[1]) /\ Len(s) >= 2 /\ IsLowSurrogate(s[2])
         THEN Utf8CodePoint(65536 + ((s[1] - 55296) * 1024) + (s[2] - 56320))
              \o TextEncode(Tail(Tail(s)))
    ELSE IF IsSurrogate(s[1])
         THEN Utf8CodePoint(65533) \o TextEncode(Tail(s))
         ELSE Utf8CodePoint(s[1]) \o TextEncode(Tail(s))

\* crypto.subtle.importKey('raw', bytes, 'PBKDF2', ...) as HMAC-SHA-256 uses
\* it: a key of at most one block is zero-padded to the block, a longer one
\* is hashed first (the digest is kept as a term)
ImportPasswordKey(bytes) ==
    IF Len(bytes) > HMAC_BLOCK
    THEN [hashed |-> TRUE,  block |-> bytes]
    ELSE [hashed |-> FALSE, block |-> bytes \o Zeros(HMAC_BLOCK - Len(bytes))]

\* crypto.subtle.deriveKey({PBKDF2, salt, iterations, hash}, passwordKey,
\* {AES-GCM, length}, false, ...): the non-extractable key handle
Pbkdf2DeriveKey(passwordKey, salt, iterations, hash, alg, length) ==
    [material |-> passwordKey, salt |-> salt, iterations |-> iterations,
     hash |-> hash, alg |-> alg, length |-> length]

\* the tag the cipher gives its t-th distinct query: 16 bytes, big-endian
TagBytes(t, n) ==
    [i \in 1..n |-> IF n - i > 2 THEN 0 ELSE ((t + 1) \div (256 ^ (n - i))) % 256]

KeyStream(t, i) == ((t * 89) + (i * 29)) % 256

\* crypto.subtle.encrypt({AES-GCM, iv, tagLength}, key, data): deterministic
\* in (key, iv, data); the output is Len(data) + tagLength/8 bytes, the tag
\* last
AesGcmEncrypt(key, iv, tagLength, data) ==
    LET hit == { r \in sealed : r.key = key /\ r.iv = iv /\ r.pt = data }
        t   == Cardinality(sealed) + 1
    IN  IF hit # {}
        THEN (CHOOSE r \in hit : TRUE).ct
        ELSE [i \in 1..Len(data) |-> Xor8(data[i], KeyStream(t, i))]
             \o TagBytes(t, tagLength \div 8)

\* crypto.subtle.decrypt({AES-GCM, iv, tagLength}, key, data): rejects with
\* an OperationError unless data is a ciphertext the cipher produced under
\* this key and iv; never releases unauthenticated bytes
AesGcmDecrypt(key, iv, tagLength, data) ==
    LET hit == { r \in sealed : r.key = key /\ r.iv = iv /\ r.ct = data }
    IN  IF Len(data) < tagLength \div 8 \/ hit = {}
        THEN [ok |-> FALSE, name |-> "OperationError",
              message |-> "The operation failed for an operation-specific reason"]
        ELSE [ok |-> TRUE, data |-> (CHOOSE r \in hit : TRUE).pt]

---------------------------------------------------------------------------
(* Errors *)

EncryptionError(message, code) ==
    [name |-> "EncryptionError", message |-> message, code |-> code]

\* the primitives that can reject for a reason of the environment
Faults == {"getRandomValues", "importKey", "FileReader", "encrypt", "decrypt"}

\* the primitives whose rejection ends encryptFile
EncryptFaults == {"getRandomValues", "importKey", "FileReader", "encrypt"}

\* the primitives whose rejection ends decryptFile before or instead of the
\* integrity check
DecryptFaults == {"importKey", "decrypt"}

\* the error a rejecting primitive raises; FileReader's is the one
\* fileToArrayBuffer makes
PlatformError(primitive) ==
    IF primitive = "FileReader"
    THEN [name |-> "Error", message |-> "Failed to read file"]
    ELSE [name |-> "TypeError", message |-> primitive \o " is unavailable"]

Throw(e)   == [ok |-> FALSE, error |-> e]
Return(v)  == [ok |-> TRUE, value |-> v]

---------------------------------------------------------------------------
(* EncryptionService *)

\* catch (error) { throw new EncryptionError(`${prefix}${error.message}`,
\* code) }: every error raised in the service is an instance of Error
CatchAs(prefix, code, error) ==
    Throw(EncryptionError(prefix \o error.message, code))

\* slip: the key material is imported from the salt, not the password
deriveKey_saltOnly(password, salt) ==
    IF "importKey" \in faults
    THEN CatchAs("Failed to derive key: ", "KEY_DERIVATION_FAILED",
                 PlatformError("importKey"))
    ELSE Return(Pbkdf2DeriveKey(ImportPasswordKey(salt), salt,
                    PBKDF2_ITERATIONS, "SHA-256", ALGORITHM, KEY_LENGTH))

\* slip: a fixed salt is passed to PBKDF2 instead of the container's
deriveKey_fixedSalt(password, salt) ==
    IF "importKey" \in faults
    THEN CatchAs("Failed to derive key: ", "KEY_DERIVATION_FAILED",
                 PlatformError("importKey"))
    ELSE Return(Pbkdf2DeriveKey(ImportPasswordKey(TextEncode(password)),
                    Zeros(SALT_LENGTH),
                    PBKDF2_ITERATIONS, "SHA-256", ALGORITHM, KEY_LENGTH))

deriveKey(password, salt) ==
    IF "importKey" \in faults
    THEN CatchAs("Failed to derive key: ", "KEY_DERIVATION_FAILED",
                 PlatformError("importKey"))
    ELSE Return(Pbkdf2DeriveKey(ImportPasswordKey(TextEncode(password)), salt,
                    PBKDF2_ITERATIONS, "SHA-256", ALGORITHM, KEY_LENGTH))

\* the error that ends the try block of encryptFile, if any: the steps run
\* in the order random source, key derivation, file read, cipher
encryptFailure(key) ==
    IF "getRandomValues" \in faults THEN PlatformError("getRandomValues")
    ELSE IF ~key.ok THEN key.error
    ELSE IF "FileReader" \in faults THEN PlatformError("FileReader")
    ELSE IF "encrypt" \in faults THEN PlatformError("encrypt")
    ELSE None

\* slip: the iv buffer is allocated but never filled from the random source
encryptFile_zeroIv(file, password, iv, salt) ==
    LET key     == deriveKey(password, salt)
        failure == encryptFailure(key)
    IN  IF failure # None
        THEN CatchAs("Failed to encrypt file: ", "ENCRYPTION_FAILED", failure)
        ELSE Return([iv |-> Zeros(IV_LENGTH), salt |-> salt,
                     ciphertext |-> AesGcmEncrypt(key.value, Zeros(IV_LENGTH),
                                                  TAG_LENGTH, file)])

\* slip: a 96-bit tag is requested
encryptFile_shortTag(file, password, iv, salt) ==
    LET key     == deriveKey(password, salt)
        failure == encryptFailure(key)
    IN  IF failure # None
        THEN CatchAs("Failed to encrypt file: ", "ENCRYPTION_FAILED", failure)
        ELSE Return([iv |-> iv, salt |-> salt,
                     ciphertext |-> AesGcmEncrypt(key.value, iv, 96, file)])

\* slip: a failed file read is swallowed and the empty buffer is encrypted
encryptFile_partial(file, password, iv, salt) ==
    LET key     == deriveKey(password, salt)
        failure == encryptFailure(key)
    IN  IF failure # None /\ failure # PlatformError("FileReader")
        THEN CatchAs("Failed to encrypt file: ", "ENCRYPTION_FAILED", failure)
        ELSE Return([iv |-> iv, salt |-> salt,
                     ciphertext |->
                        AesGcmEncrypt(key.value, iv, TAG_LENGTH,
                                      IF failure = None THEN file ELSE <<>>)])

\* encryptFile(file, password) with iv and salt the two values the random
\* source returned inside the call
encryptFile(file, password, iv, salt) ==
    LET key     == deriveKey(password, salt)
        failure == encryptFailure(key)
    IN  IF failure # None
        THEN CatchAs("Failed to encrypt file: ", "ENCRYPTION_FAILED", failure)
        ELSE Return([iv |-> iv, salt |-> salt,
                     ciphertext |-> AesGcmEncrypt(key.value, iv, TAG_LENGTH,
                                                  file)])

\* the outcome of the try block of decryptFile once deriveKey has settled
decryptWith(key, encryptedFile) ==
    LET dec == AesGcmDecrypt(key.value, encryptedFile.iv, TAG_LENGTH,
                             encryptedFile.ciphertext)
    IN  IF ~key.ok
        THEN CatchAs("Failed to decrypt file: ", "DECRYPTION_FAILED", key.error)
        ELSE IF "decrypt" \in faults
        THEN CatchAs("Failed to decrypt file: ", "DECRYPTION_FAILED",
                     PlatformError("decrypt"))
        ELSE IF ~dec.ok
        THEN CatchAs("Failed to decrypt file: ", "DECRYPTION_FAILED", dec)
        ELSE Return(dec.data)

\* slip: the message of the failure quotes the nonce that was tried
decryptFile_verbose(encryptedFile, password) ==
    LET r == decryptWith(deriveKey(password, encryptedFile.salt),
                         encryptedFile)
    IN  IF r.ok THEN r
        ELSE Throw(EncryptionError(
                     r.error.message \o " (iv " \o ToString(encryptedFile.iv)
                        \o ")",
                     r.error.code))

\* slip: the service keeps the salt of its last encryption and derives the
\* decryption key from it
decryptFile_cachedSalt(encryptedFile, password) ==
    decryptWith(
        deriveKey(password,
                  IF encs # <<>> /\ encs[Len(encs)].out.ok
                  THEN encs[Len(encs)].out.value.salt
                  ELSE encryptedFile.salt),
        encryptedFile)

\* slip: the decrypt path derives its key with another iteration count
decryptFile_iterations(encryptedFile, password) ==
    decryptWith(
        Return(Pbkdf2DeriveKey(ImportPasswordKey(TextEncode(password)),
                               encryptedFile.salt, 10000, "SHA-256",
                               ALGORITHM, KEY_LENGTH)),
        encryptedFile)

\* slip: the catch block hands back the input bytes instead of throwing
decryptFile_swallow(encryptedFile, password) ==
    LET r == decryptWith(deriveKey(password, encryptedFile.salt),
                         encryptedFile)
    IN  IF r.ok THEN r ELSE Return(encryptedFile.ciphertext)

decryptFile(encryptedFile, password) ==
    decryptWith(deriveKey(password, encryptedFile.salt), encryptedFile)

\* slip: the salt is written before the iv
combineEncryptedParts_saltFirst(encryptedFile) ==
    encryptedFile.salt \o encryptedFile.iv \o encryptedFile.ciphertext

combineEncryptedParts(encryptedFile) ==
    LET iv   == encryptedFile.iv
        salt == encryptedFile.salt
        ct   == encryptedFile.ciphertext
    IN  [i \in 1..(Len(iv) + Len(salt) + Len(ct)) |->
            IF i <= Len(iv) THEN iv[i]
            ELSE IF i <= Len(iv) + Len(salt) THEN salt[i - Len(iv)]
            ELSE ct[i - Len(iv) - Len(salt)]]

\* slip: only the iv length is required
splitEncryptedParts_ivOnly(combinedData) ==
    IF Len(combinedData) < IV_LENGTH
    THEN Throw(EncryptionError("Invalid encrypted data: too short",
                               "INVALID_ENCRYPTED_DATA"))
    ELSE Return([iv   |-> Slice(combinedData, 0, IV_LENGTH),
                 salt |-> Slice(combinedData, IV_LENGTH,
                                IV_LENGTH + SALT_LENGTH),
                 ciphertext |-> Slice(combinedData, IV_LENGTH + SALT_LENGTH,
                                      Len(combinedData))])

\* slip: <= in the length check
splitEncryptedParts_offByOne(combinedData) ==
    IF Len(combinedData) <= IV_LENGTH + SALT_LENGTH
    THEN Throw(EncryptionError("Invalid encrypted data: too short",
                               "INVALID_ENCRYPTED_DATA"))
    ELSE Return([iv   |-> Slice(combinedData, 0, IV_LENGTH),
                 salt |-> Slice(combinedData, IV_LENGTH,
                                IV_LENGTH + SALT_LENGTH),
                 ciphertext |-> Slice(combinedData, IV_LENGTH + SALT_LENGTH,
                                      Len(combinedData))])

\* slip: the salt is sliced with the iv length
splitEncryptedParts_saltLen(combinedData) ==
    IF Len(combinedData) < IV_LENGTH + SALT_LENGTH
    THEN Throw(EncryptionError("Invalid encrypted data: too short",
                               "INVALID_ENCRYPTED_DATA"))
    ELSE Return([iv   |-> Slice(combinedData, 0, IV_LENGTH),
                 salt |-> Slice(combinedData, IV_LENGTH,
                                IV_LENGTH + IV_LENGTH),
                 ciphertext |-> Slice(combinedData, IV_LENGTH + IV_LENGTH,
                                      Len(combinedData))])

splitEncryptedParts(combinedData) ==
    IF Len(combinedData) < IV_LENGTH + SALT_LENGTH
    THEN Throw(EncryptionError("Invalid encrypted data: too short",
                               "INVALID_ENCRYPTED_DATA"))
    ELSE Return([iv   |-> Slice(combinedData, 0, IV_LENGTH),
                 salt |-> Slice(combinedData, IV_LENGTH,
                                IV_LENGTH + SALT_LENGTH),
                 ciphertext |-> Slice(combinedData, IV_LENGTH + SALT_LENGTH,
                                      Len(combinedData))])

---------------------------------------------------------------------------
(* ZKFileClient.download *)

ValidationError(message, code) ==
    [name |-> "ValidationError", message |-> message, code |-> code]

\* a string is falsy when empty; a wallet without a public key counts as
\* missing
validateDownloadOptions(options) ==
    IF options.fileId = <<>> THEN Throw(ValidationError("File ID is required",
                                                      "MISSING_FILE_ID"))
    ELSE IF options.password = <<>>
         THEN Throw(ValidationError("Password is required",
                                    "MISSING_PASSWORD"))
    ELSE IF options.wallet = "none" \/ options.wallet = "nokey"
         THEN Throw(ValidationError("Wallet is required", "MISSING_WALLET"))
    ELSE Return(TRUE)

\* download(options) when the storage service returns encryptedData for the
\* file's CID: the codec calls made, in order, and the outcome
download(options, encryptedData) ==
    LET valid == validateDownloadOptions(options)
        split == splitEncryptedParts(encryptedData)
        dec   == decryptFile(split.value, options.password)
    IN  IF ~valid.ok THEN [calls |-> <<>>, out |-> valid]
        ELSE IF ~split.ok
             THEN [calls |-> <<"storage.download", "splitEncryptedParts">>,
                   out |-> split]
        ELSE [calls |-> <<"storage.download", "splitEncryptedParts",
                          "decryptFile">>,
              out |-> dec]

---------------------------------------------------------------------------
(* Inputs *)

\* plaintexts: one byte string of every length up to MaxPlainLen
Plaintexts == { [i \in 1..n |-> (200 + i) % 256] : n \in 0..MaxPlainLen }

\* passwords as UTF-16 code units: "a", "b", and "a" followed by U+0000
Passwords == { <<97>>, <<98>>, <<97, 0>> }

\* buffers that did not come from encryptFile, of every length up to
\* 28 + MaxExtra
ArbitraryBuffers ==
    { [i \in 1..n |-> (i * 7) % 256] :
         n \in 0..(IV_LENGTH + SALT_LENGTH + MaxExtra) }

DownloadOptions ==
    [fileId : {<<"z", "k", "f", "_", "c", "i", "d">>},
     password : Passwords \cup {<<>>}, wallet : {"ok"}]

\* the bits an in-flight corruption may invert in a byte
FlipBits == {0, 7}

\* the offsets of the longest serialized blob
Offsets == 0..(IV_LENGTH + SALT_LENGTH + MaxPlainLen + (TAG_LENGTH \div 8) - 1)

---------------------------------------------------------------------------
(* State machine *)

Init ==
    /\ sealed = {}
    /\ encs = <<>>
    /\ buf = None
    /\ parts = None
    /\ rebuilt = None
    /\ res = None
    /\ faults = {}
    /\ programId = Unset
    /\ store = <<>>
    /\ made = <<>>
    /\ call = None
    /\ tasks = <<>>
    /\ locals = <<>>

\* one encryptFile(file, password) call in which the random source returns
\* iv and then salt: the service derives the key and encrypts; the cipher
\* records the query
EncryptFile(file, password, iv, salt) ==
    /\ Len(encs) < MaxEncrypts
    /\ LET r == encryptFile(file, password, iv, salt)
       IN  /\ encs' = Append(encs, [file |-> file, password |-> password,
                                    out |-> r])
           /\ sealed' = IF r.ok
                         THEN sealed \cup
                                { [key |-> deriveKey(password, salt).value,
                                   iv |-> iv, pt |-> file,
                                   ct |-> r.value.ciphertext] }
                         ELSE sealed
    /\ UNCHANGED <<buf, parts, rebuilt, res, faults, clientVars, taskVars>>

\* combineEncryptedParts on the container of the i-th encryptFile call; the
\* blob is handed to the transport
Serialize(i) ==
    /\ buf = None
    /\ i \in 1..Len(encs)
    /\ encs[i].out.ok
    /\ buf' = [bytes |-> combineEncryptedParts(encs[i].out.value),
               src |-> i, flip |-> None]
    /\ UNCHANGED <<sealed, encs, parts, rebuilt, res, faults, clientVars, taskVars>>

\* the transport holds a buffer that is not the output of an encryption
Receive(b) ==
    /\ buf = None
    /\ buf' = [bytes |-> b, src |-> 0, flip |-> None]
    /\ UNCHANGED <<sealed, encs, parts, rebuilt, res, faults, clientVars, taskVars>>

\* one bit of the buffer in flight is inverted (offset 0-based)
FlipBit(offset, bit) ==
    /\ buf # None
    /\ buf.flip = None
    /\ parts = None
    /\ res = None
    /\ offset < Len(buf.bytes)
    /\ buf' = [buf EXCEPT !.bytes[offset + 1] = FlipBitOf(@, bit),
                          !.flip = [offset |-> offset, bit |-> bit]]
    /\ UNCHANGED <<sealed, encs, parts, rebuilt, res, faults, clientVars, taskVars>>

\* the transport delivers only the first n bytes of the blob
Truncate(n) ==
    /\ buf # None
    /\ buf.src > 0
    /\ buf.flip = None
    /\ parts = None
    /\ res = None
    /\ n < Len(buf.bytes)
    /\ buf' = [buf EXCEPT !.bytes = Slice(@, 0, n),
                          !.flip = [truncated |-> n]]
    /\ UNCHANGED <<sealed, encs, parts, rebuilt, res, faults, clientVars, taskVars>>

\* splitEncryptedParts on the buffer in flight
Deserialize ==
    /\ buf # None
    /\ parts = None
    /\ res = None
    /\ parts' = splitEncryptedParts(buf.bytes)
    /\ UNCHANGED <<sealed, encs, buf, rebuilt, res, faults, clientVars, taskVars>>

\* combineEncryptedParts on the container splitEncryptedParts returned
Reserialize ==
    /\ parts # None
    /\ parts.ok
    /\ rebuilt = None
    /\ res = None
    /\ rebuilt' = combineEncryptedParts(parts.value)
    /\ UNCHANGED <<sealed, encs, buf, parts, res, faults, clientVars, taskVars>>

\* decryptFile on the container splitEncryptedParts returned
DecryptFile(password) ==
    /\ parts # None
    /\ parts.ok
    /\ rebuilt = None
    /\ res' = [op |-> "decryptFile", password |-> password,
               calls |-> <<"decryptFile">>,
               out |-> decryptFile(parts.value, password)]
    /\ UNCHANGED <<sealed, encs, buf, parts, rebuilt, faults, clientVars, taskVars>>

\* decryptFile on the container encryptFile returned, not serialized
DecryptStored(i, password) ==
    /\ i \in 1..Len(encs)
    /\ encs[i].out.ok
    /\ res' = [op |-> "decryptStored", src |-> i, password |-> password,
               calls |-> <<"decryptFile">>,
               out |-> decryptFile(encs[i].out.value, password),
               had |-> Len(encs)]
    /\ UNCHANGED <<sealed, encs, buf, parts, rebuilt, faults, clientVars, taskVars>>

\* the caller repeats its last decryptFile call with the identical
\* container and password
DecryptRepeat ==
    /\ res # None
    /\ res.op = "decryptStored"
    /\ "repeat" \notin DOMAIN res
    /\ res' = [op |-> res.op, src |-> res.src, password |-> res.password,
               calls |-> res.calls, out |-> res.out,
               repeat |-> decryptFile(encs[res.src].out.value, res.password),
               since |-> Len(encs) - res.had]
    /\ UNCHANGED <<sealed, encs, buf, parts, rebuilt, faults, clientVars, taskVars>>

\* ZKFileClient.download with the storage serving the buffer in flight
Download(options) ==
    /\ buf # None
    /\ parts = None
    /\ LET d == download(options, buf.bytes)
       IN  res' = [op |-> "download", password |-> options.password,
                   calls |-> d.calls, out |-> d.out]
    /\ UNCHANGED <<sealed, encs, buf, parts, rebuilt, faults, clientVars, taskVars>>

Nonces == RandomBytes(IV_LENGTH)
Salts  == RandomBytes(SALT_LENGTH)

OneOf(S) == { CHOOSE x \in S : TRUE }

Longest == CHOOSE p \in Plaintexts : Len(p) = MaxPlainLen

\* the codec called directly: encryptFile on every plaintext under every
\* password, with nonces that may repeat and one salt, and decryptFile on
\* the containers it returned
Next ==
    \/ \E file \in Plaintexts, password \in Passwords,
          iv \in Nonces, salt \in OneOf(Salts) :
          EncryptFile(file, password, iv, salt)
    \/ \E i \in 1..MaxEncrypts, password \in Passwords :
          DecryptStored(i, password)

Spec == Init /\ [][Next]_vars

\* successive encryptions under one password with every outcome of the
\* random source
NextUnique ==
    \/ \E file \in Plaintexts, password \in {<<97>>},
          iv \in Nonces, salt \in Salts :
          EncryptFile(file, password, iv, salt)
    \/ \E i \in 1..MaxEncrypts : Serialize(i)

SpecUnique == Init /\ [][NextUnique]_vars

\* upload and download over a transport that inverts one bit of the blob:
\* the empty and the longest plaintext under one password, with nonces that
\* may repeat and one salt
NextTamper ==
    \/ \E file \in {<<>>, Longest}, password \in {<<97>>},
          iv \in Nonces, salt \in OneOf(Salts) :
          EncryptFile(file, password, iv, salt)
    \/ \E i \in 1..MaxEncrypts : Serialize(i)
    \/ \E offset \in Offsets, bit \in FlipBits : FlipBit(offset, bit)
    \/ Deserialize
    \/ \E password \in Passwords : DecryptFile(password)

SpecTamper == Init /\ [][NextTamper]_vars

\* upload and download over a transport of any behaviour: blobs of the
\* longest plaintext, whole or cut short, and buffers that are no ciphertext
\* are split, recombined, decrypted or downloaded
NextFraming ==
    \/ \E password \in {<<97>>}, iv \in OneOf(Nonces),
          salt \in OneOf(Salts) :
          EncryptFile(Longest, password, iv, salt)
    \/ \E i \in 1..MaxEncrypts : Serialize(i)
    \/ \E b \in ArbitraryBuffers : Receive(b)
    \/ \E n \in Offsets : Truncate(n)
    \/ Deserialize
    \/ Reserialize
    \/ \E password \in Passwords : DecryptFile(password)
    \/ \E options \in DownloadOptions : Download(options)

SpecFraming == Init /\ [][NextFraming]_vars

\* the environment of a decryption: the primitives of the decrypt path may
\* be unusable
InitRepeat ==
    /\ sealed = {}
    /\ encs = <<>>
    /\ buf = None
    /\ parts = None
    /\ rebuilt = None
    /\ res = None
    /\ faults \in SUBSET {"decrypt"}
    /\ programId = Unset
    /\ store = <<>>
    /\ made = <<>>
    /\ call = None
    /\ tasks = <<>>
    /\ locals = <<>>

\* decryptions repeated while other encryptions, with every outcome of the
\* random source, go on
NextRepeat ==
    \/ \E file \in {Longest}, password \in {<<97>>},
          iv \in Nonces, salt \in Salts :
          EncryptFile(file, password, iv, salt)
    \/ \E i \in 1..MaxEncrypts, password \in Passwords :
          DecryptStored(i, password)
    \/ DecryptRepeat

SpecRepeat == InitRepeat /\ [][NextRepeat]_vars

\* the environment: any set of the platform's primitives may be unusable
InitErrors ==
    /\ sealed = {}
    /\ encs = <<>>
    /\ buf = None
    /\ parts = None
    /\ rebuilt = None
    /\ res = None
    /\ faults \in SUBSET Faults
    /\ programId = Unset
    /\ store = <<>>
    /\ made = <<>>
    /\ call = None
    /\ tasks = <<>>
    /\ locals = <<>>

\* the codec in an environment where primitives may reject: encryptions,
\* blobs and foreign buffers of any length, split and decrypted under the
\* right and a wrong password
NextErrors ==
    \/ \E password \in {<<97>>}, iv \in OneOf(Nonces),
          salt \in OneOf(Salts) :
          EncryptFile(Longest, password, iv, salt)
    \/ \E i \in 1..MaxEncrypts : Serialize(i)
    \/ \E b \in ArbitraryBuffers : Receive(b)
    \/ Deserialize
    \/ \E password \in {<<97>>, <<98>>} : DecryptFile(password)

SpecErrors == InitErrors /\ [][NextErrors]_vars

---------------------------------------------------------------------------
(* ZKFileClient, StorageService and SolanaService                          *)
(*                                                                         *)
(* A string that is cut or searched (a CID, a file ID) is the sequence of  *)
(* its characters.  A wallet is "none" (no wallet given), "nokey"          *)
(* (publicKey null), "nosign" (a public key, no signTransaction) or "ok".  *)
(* Each awaited request to the storage gateway, the RPC node or the wallet *)
(* is a step of its own: it settles later, resolved or rejected, and       *)
(* setProgramId may run in between.  `made` lists the requests the call in *)
(* progress has made, in order.                                            *)

StorageError(message, code) ==
    [name |-> "StorageError", message |-> message, code |-> code]

SolanaError(message, code) ==
    [name |-> "SolanaError", message |-> message, code |-> code]

Min(a, b) == IF a < b THEN a ELSE b

\* String.prototype.substring(0, n)
Substring0(str, n) == SubSeq(str, 1, Min(n, Len(str)))

\* whether pat occurs in str at the 1-based position i
OccursAt(str, pat, i) ==
    /\ i + Len(pat) - 1 <= Len(str)
    /\ \A k \in 1..Len(pat) : str[i + k - 1] = pat[k]

\* String.prototype.replace(pat, "") with a string pattern: the first
\* occurrence is removed, the others stay
ReplaceFirst(str, pat) ==
    LET hits == { i \in 1..Len(str) : OccursAt(str, pat, i) }
    IN  IF hits = {} THEN str
        ELSE LET i == CHOOSE h \in hits : \A g \in hits : h <= g
             IN  SubSeq(str, 1, i - 1) \o SubSeq(str, i + Len(pat), Len(str))

FILE_ID_PREFIX    == <<"z", "k", "f", "_">>
FILE_ID_CID_CHARS == 16

generateFileId(cid) == FILE_ID_PREFIX \o Substring0(cid, FILE_ID_CID_CHARS)

extractCIDFromFileId(fileId) == ReplaceFirst(fileId, FILE_ID_PREFIX)

NoWallet(wallet) == wallet = "none" \/ wallet = "nokey"

validateUploadOptions(options) ==
    IF options.file = None
    THEN Throw(ValidationError("File is required", "MISSING_FILE"))
    ELSE IF options.password = <<>>
         THEN Throw(ValidationError("Password is required",
                                    "MISSING_PASSWORD"))
    ELSE IF NoWallet(options.wallet)
         THEN Throw(ValidationError("Wallet is required", "MISSING_WALLET"))
    ELSE Return(TRUE)

validateShareOptions(options) ==
    IF options.fileId = <<>>
    THEN Throw(ValidationError("File ID is required", "MISSING_FILE_ID"))
    ELSE IF options.recipient = Unset
         THEN Throw(ValidationError("Recipient is required",
                                    "MISSING_RECIPIENT"))
    ELSE IF NoWallet(options.wallet)
         THEN Throw(ValidationError("Wallet is required", "MISSING_WALLET"))
    ELSE Return(TRUE)

\* slip: the wallet is checked before the recipient
validateRevokeOptions_walletFirst(options) ==
    IF options.fileId = <<>>
    THEN Throw(ValidationError("File ID is required", "MISSING_FILE_ID"))
    ELSE IF NoWallet(options.wallet)
         THEN Throw(ValidationError("Wallet is required", "MISSING_WALLET"))
    ELSE IF options.recipient = Unset
         THEN Throw(ValidationError("Recipient is required",
                                    "MISSING_RECIPIENT"))
    ELSE Return(TRUE)

validateRevokeOptions(options) ==
    IF options.fileId = <<>>
    THEN Throw(ValidationError("File ID is required", "MISSING_FILE_ID"))
    ELSE IF options.recipient = Unset
         THEN Throw(ValidationError("Recipient is required",
                                    "MISSING_RECIPIENT"))
    ELSE IF NoWallet(options.wallet)
         THEN Throw(ValidationError("Wallet is required", "MISSING_WALLET"))
    ELSE Return(TRUE)

\* the code and the message prefix of the catch block of a SolanaService
\* method
TxFailed(method) ==
    CASE method = "initializeFile" ->
            [code |-> "INITIALIZE_FILE_FAILED",
             prefix |-> "Failed to initialize file: "]
      [] method = "grantAccess" ->
            [code |-> "GRANT_ACCESS_FAILED",
             prefix |-> "Failed to grant access: "]
      [] method = "revokeAccess" ->
            [code |-> "REVOKE_ACCESS_FAILED",
             prefix |-> "Failed to revoke access: "]

\* catch (error) { throw new SolanaError(`${prefix}${error.message}`, code) }
TxCatch(method, error) ==
    Throw(SolanaError(TxFailed(method).prefix \o error.message,
                      TxFailed(method).code))

\* slip: the program ID is checked before the wallet
solanaPreconditions_programFirst(wallet) ==
    IF programId = Unset
    THEN Throw(SolanaError("Program ID not set", "PROGRAM_ID_NOT_SET"))
    ELSE IF wallet = "nokey"
         THEN Throw(SolanaError("Wallet not connected",
                                "WALLET_NOT_CONNECTED"))
    ELSE Return(TRUE)

\* the checks initializeFile, grantAccess and revokeAccess make before
\* their try block
solanaPreconditions(wallet) ==
    IF wallet = "nokey"
    THEN Throw(SolanaError("Wallet not connected", "WALLET_NOT_CONNECTED"))
    ELSE IF programId = Unset
         THEN Throw(SolanaError("Program ID not set", "PROGRAM_ID_NOT_SET"))
    ELSE Return(TRUE)

\* if (!wallet.signTransaction) throw new SolanaError(...), inside the try
signingCheck(wallet) ==
    IF wallet = "nosign"
    THEN Throw(SolanaError("Wallet does not support signing",
                           "SIGNING_NOT_SUPPORTED"))
    ELSE Return(TRUE)

\* the error of a request the network or the wallet rejected
Rejected(request) == [name |-> "Error", message |-> request \o " rejected"]

\* no client call is in progress
Idle == IF call = None THEN TRUE ELSE call.pc = "done"

NewCall(op, options) ==
    [op |-> op, options |-> options, pc |-> "start", method |-> Unset,
     wallet |-> options.wallet, cid |-> <<>>, data |-> <<>>, out |-> None,
     after |-> None]

\* the upload that returned just before this call, if one did: what it
\* returned and what it was given
LastUpload ==
    IF call # None /\ call.op = "upload" /\ call.pc = "done" /\ call.out.ok
    THEN [fileId |-> call.out.value.fileId, cid |-> call.out.value.cid,
          file |-> call.options.file.bytes,
          password |-> call.options.password]
    ELSE None

Finish(c, out) == [c EXCEPT !.pc = "done", !.out = out]

\* what the client method returns once its transaction has settled with
\* txResult; a failure passes through unchanged
Complete(c, txResult) ==
    IF ~txResult.ok THEN txResult
    ELSE CASE c.op = "upload" ->
                 Return([fileId |-> generateFileId(c.cid), cid |-> c.cid,
                         signature |-> txResult.value])
           [] c.op = "share" ->
                 Return([signature |-> txResult.value,
                         recipient |-> c.options.recipient])
           [] OTHER -> txResult

\* a SolanaService method is entered: its preconditions are checked, the
\* transaction is built and the blockhash is requested
EnterTx(c, method, log) ==
    LET pre == solanaPreconditions(c.wallet)
    IN  IF ~pre.ok
        THEN /\ call' = Finish([c EXCEPT !.method = method],
                               Complete(c, pre))
             /\ made' = Append(log, method)
        ELSE /\ call' = [c EXCEPT !.method = method, !.pc = "blockhash"]
             /\ made' = Append(log, method) \o <<"getLatestBlockhash">>

\* the record the cipher keeps of a successful encryptFile
Sealing(r, file, password, iv, salt) ==
    IF r.ok
    THEN sealed \cup { [key |-> deriveKey(password, salt).value, iv |-> iv,
                        pt |-> file, ct |-> r.value.ciphertext] }
    ELSE sealed

\* ZKFileClient.upload up to its request to the storage service
CallUpload(options, iv, salt) ==
    /\ Idle
    /\ LET c     == NewCall("upload", options)
           valid == validateUploadOptions(options)
           enc   == encryptFile(options.file.bytes, options.password,
                                iv, salt)
       IN  IF ~valid.ok
           THEN /\ call' = Finish(c, valid)
                /\ made' = <<>>
                /\ sealed' = sealed
           ELSE IF ~enc.ok
           THEN /\ call' = Finish(c, enc)
                /\ made' = <<"encryptFile">>
                /\ sealed' = sealed
           ELSE /\ call' = [c EXCEPT !.pc = "storage.upload",
                                     !.data = combineEncryptedParts(enc.value)]
                /\ made' = <<"encryptFile", "combineEncryptedParts",
                             "storage.upload">>
                /\ sealed' = Sealing(enc, options.file.bytes,
                                     options.password, iv, salt)
    /\ UNCHANGED <<encs, buf, parts, rebuilt, res, faults, programId, store,
                   taskVars>>

\* slip: initializeFile is entered without asking whether a program ID is
\* set
StorageUploadSettles_always(ok, cid) ==
    /\ call # None
    /\ call.pc = "storage.upload"
    /\ IF ~ok
       THEN /\ call' = Finish(call,
                 Throw(StorageError("Failed to upload to ipfs: "
                                       \o Rejected("fetch").message,
                                    "UPLOAD_FAILED")))
            /\ UNCHANGED <<made, store>>
       ELSE LET c == [call EXCEPT !.cid = cid]
            IN  /\ store' = [k \in DOMAIN store \cup {cid} |->
                               IF k = cid THEN call.data ELSE store[k]]
                /\ EnterTx(c, "initializeFile", made)
    /\ UNCHANGED <<codecVars, faults, programId, taskVars>>

\* the storage service settles the upload: rejected, or stored under the
\* CID it returns; the client then makes the file ID and, if a program ID
\* is set now, enters initializeFile
StorageUploadSettles(ok, cid) ==
    /\ call # None
    /\ call.pc = "storage.upload"
    /\ IF ~ok
       THEN /\ call' = Finish(call,
                 Throw(StorageError("Failed to upload to ipfs: "
                                       \o Rejected("fetch").message,
                                    "UPLOAD_FAILED")))
            /\ UNCHANGED <<made, store>>
       ELSE LET c == [call EXCEPT !.cid = cid]
            IN  /\ store' = [k \in DOMAIN store \cup {cid} |->
                               IF k = cid THEN call.data ELSE store[k]]
                /\ IF programId # Unset
                   THEN EnterTx(c, "initializeFile", made)
                   ELSE /\ call' = Finish(c, Complete(c, Return("")))
                        /\ made' = made
    /\ UNCHANGED <<codecVars, faults, programId, taskVars>>

\* ZKFileClient.download up to its request to the storage service
CallDownload(options) ==
    /\ Idle
    /\ LET c     == [NewCall("download", options) EXCEPT
                          !.after = LastUpload]
           valid == validateDownloadOptions(options)
       IN  IF ~valid.ok
           THEN /\ call' = Finish(c, valid)
                /\ made' = <<>>
           ELSE /\ call' = [c EXCEPT !.pc = "storage.download",
                               !.cid = extractCIDFromFileId(options.fileId)]
                /\ made' = <<"storage.download">>
    /\ UNCHANGED <<codecVars, faults, programId, store, taskVars>>

\* the storage service settles the download: rejected (also when nothing is
\* stored under the CID), or the stored bytes, which the client splits and
\* decrypts
StorageDownloadSettles(ok) ==
    /\ call # None
    /\ call.pc = "storage.download"
    /\ IF ~ok \/ call.cid \notin DOMAIN store
       THEN /\ call' = Finish(call,
                 Throw(StorageError("Failed to download from ipfs: "
                                       \o Rejected("fetch").message,
                                    "DOWNLOAD_FAILED")))
            /\ made' = made
       ELSE LET d == download(call.options, store[call.cid])
            IN  /\ call' = Finish(call, d.out)
                /\ made' = d.calls
    /\ UNCHANGED <<codecVars, faults, programId, store, taskVars>>

\* ZKFileClient.share up to the first request of grantAccess
CallShare(options) ==
    /\ Idle
    /\ LET c     == NewCall("share", options)
           valid == validateShareOptions(options)
       IN  IF ~valid.ok
           THEN /\ call' = Finish(c, valid)
                /\ made' = <<>>
           ELSE EnterTx(c, "grantAccess", <<>>)
    /\ UNCHANGED <<codecVars, faults, programId, store, taskVars>>

\* ZKFileClient.revoke up to the first request of revokeAccess
CallRevoke(options) ==
    /\ Idle
    /\ LET c     == NewCall("revoke", options)
           valid == validateRevokeOptions(options)
       IN  IF ~valid.ok
           THEN /\ call' = Finish(c, valid)
                /\ made' = <<>>
           ELSE EnterTx(c, "revokeAccess", <<>>)
    /\ UNCHANGED <<codecVars, faults, programId, store, taskVars>>

\* initializeFile, grantAccess or revokeAccess called on the SolanaService
\* itself
CallSolana(method, wallet) ==
    /\ Idle
    /\ EnterTx(NewCall(method, [wallet |-> wallet]), method, <<>>)
    /\ UNCHANGED <<codecVars, faults, programId, store, taskVars>>

\* connection.getLatestBlockhash settles; then the wallet is asked to sign,
\* if it can
BlockhashSettles(ok) ==
    /\ call # None
    /\ call.pc = "blockhash"
    /\ LET sc == signingCheck(call.wallet)
       IN  IF ~ok
           THEN /\ call' = Finish(call, Complete(call,
                              TxCatch(call.method,
                                      Rejected("getLatestBlockhash"))))
                /\ made' = made
           ELSE IF ~sc.ok
           THEN /\ call' = Finish(call, Complete(call,
                              TxCatch(call.method, sc.error)))
                /\ made' = made
           ELSE /\ call' = [call EXCEPT !.pc = "sign"]
                /\ made' = Append(made, "signTransaction")
    /\ UNCHANGED <<codecVars, faults, programId, store, taskVars>>

\* wallet.signTransaction settles; then the transaction is sent
SignSettles(ok) ==
    /\ call # None
    /\ call.pc = "sign"
    /\ IF ~ok
       THEN /\ call' = Finish(call, Complete(call,
                          TxCatch(call.method, Rejected("signTransaction"))))
            /\ made' = made
       ELSE /\ call' = [call EXCEPT !.pc = "send"]
            /\ made' = Append(made, "sendRawTransaction")
    /\ UNCHANGED <<codecVars, faults, programId, store, taskVars>>

\* connection.sendRawTransaction settles; then confirmation is awaited
SendSettles(ok) ==
    /\ call # None
    /\ call.pc = "send"
    /\ IF ~ok
       THEN /\ call' = Finish(call, Complete(call,
                          TxCatch(call.method, Rejected("sendRawTransaction"))))
            /\ made' = made
       ELSE /\ call' = [call EXCEPT !.pc = "confirm"]
            /\ made' = Append(made, "confirmTransaction")
    /\ UNCHANGED <<codecVars, faults, programId, store, taskVars>>

\* connection.confirmTransaction settles; the method returns the signature
ConfirmSettles(ok) ==
    /\ call # None
    /\ call.pc = "confirm"
    /\ call' = Finish(call, Complete(call,
                  IF ok THEN Return("signature")
                  ELSE TxCatch(call.method, Rejected("confirmTransaction"))))
    /\ made' = made
    /\ UNCHANGED <<codecVars, faults, programId, store, taskVars>>

\* SolanaService.setProgramId, at any moment
SetProgramId(id) ==
    /\ programId # id
    /\ programId' = id
    /\ UNCHANGED <<codecVars, faults, store, made, call, taskVars>>

\* the start of an IPFS CID; Cid(n) is a CID of n characters
ExampleCid ==
    <<"Q", "m", "Y", "w", "A", "P", "J", "z", "v", "5", "C", "Z", "s", "n",
      "A", "6", "2", "5", "s", "3", "X", "f", "2", "n">>

Cid(n) == Substring0(ExampleCid, n)

\* the CIDs the storage service may return: a short one, one of exactly the
\* characters a file ID keeps, and a longer one
Cids == { Cid(n) : n \in {3, FILE_ID_CID_CHARS, MaxCidLen} }

Wallets == {"none", "nokey", "nosign", "ok"}

Short == CHOOSE p \in Plaintexts : Len(p) = 1

\* a File or Blob object with the given content
FileOf(bytes) == [bytes |-> bytes]

UploadOptions ==
    [file : {None, FileOf(Short), FileOf(Longest)},
     password : {<<>>, <<97>>}, wallet : Wallets]

FileIds == { generateFileId(c) : c \in Cids }

ClientDownloadOptions ==
    [fileId : FileIds \cup {<<>>}, password : {<<>>, <<97>>},
     wallet : Wallets]

ShareOptions ==
    [fileId : {<<>>, generateFileId(Cid(3))},
     recipient : {Unset, "recipient"}, wallet : Wallets]

RevokeOptions == ShareOptions

ProgramIds == {"program"}

TxMethods == {"initializeFile", "grantAccess", "revokeAccess"}

\* a client whose configuration may or may not name a program, in an
\* environment where at most one primitive of the encrypt path rejects
InitClient ==
    /\ sealed = {}
    /\ encs = <<>>
    /\ buf = None
    /\ parts = None
    /\ rebuilt = None
    /\ res = None
    /\ faults \in {{}} \cup { {f} : f \in EncryptFaults }
    /\ programId \in ProgramIds \cup {Unset}
    /\ store = <<>>
    /\ made = <<>>
    /\ call = None
    /\ tasks = <<>>
    /\ locals = <<>>

\* the client's four methods and the SolanaService's three, one call at a
\* time, every awaited request settling either way
NextClient ==
    \/ \E options \in UploadOptions, iv \in OneOf(Nonces),
          salt \in OneOf(Salts) : CallUpload(options, iv, salt)
    \/ \E ok \in BOOLEAN, cid \in Cids : StorageUploadSettles(ok, cid)
    \/ \E options \in ClientDownloadOptions : CallDownload(options)
    \/ \E ok \in BOOLEAN : StorageDownloadSettles(ok)
    \/ \E options \in ShareOptions : CallShare(options)
    \/ \E options \in RevokeOptions : CallRevoke(options)
    \/ \E method \in TxMethods, wallet \in Wallets \ {"none"} :
          CallSolana(method, wallet)
    \/ \E ok \in BOOLEAN : BlockhashSettles(ok)
    \/ \E ok \in BOOLEAN : SignSettles(ok)
    \/ \E ok \in BOOLEAN : SendSettles(ok)
    \/ \E ok \in BOOLEAN : ConfirmSettles(ok)
    \/ \E id \in ProgramIds : SetProgramId(id)

SpecClient == InitClient /\ [][NextClient]_vars

---------------------------------------------------------------------------
(* Concurrent calls on one EncryptionService                               *)
(*                                                                         *)
(* Each call is a task of its own; it gives up control at every await and  *)
(* any other task may run there.  What a call keeps across an await (iv,   *)
(* salt, key, fileData) lives in `locals` at an address made of the task   *)
(* and the variable's name.                                                *)

Calls == 1..MaxCalls

\* slip: the variable is a field of the service, one for all calls
Local_field(c, name) == <<0, name>>

\* the address of a variable declared inside a call
Local(c, name) == <<c, name>>

Load(c, name) == locals[Local(c, name)]

Save(mem, c, name, value) ==
    [a \in DOMAIN mem \cup {Local(c, name)} |->
        IF a = Local(c, name) THEN value ELSE mem[a]]

Active(c) == tasks[c].pc \notin {"idle", "done"}

\* the plaintext task c is given
FileFor(c) ==
    CHOOSE p \in Plaintexts : Len(p) = (c - 1) % (MaxPlainLen + 1)

\* encryptFile is called: the nonce and the salt are drawn and deriveKey is
\* awaited
EncryptBegins(c, file, password, iv, salt) ==
    /\ tasks[c].pc = "idle"
    /\ tasks' = [tasks EXCEPT ![c] =
                   [kind |-> "encryptFile", pc |-> "deriveKey",
                    file |-> file, password |-> password,
                    iv |-> iv, salt |-> salt,
                    overlap |-> \E d \in Calls : Active(d),
                    out |-> None]]
    /\ locals' = Save(Save(locals, c, "iv", iv), c, "salt", salt)
    /\ UNCHANGED <<codecVars, faults, clientVars>>

\* deriveKey settles; the file read is awaited
EncryptDerives(c) ==
    /\ tasks[c].pc = "deriveKey"
    /\ tasks[c].kind = "encryptFile"
    /\ LET key == deriveKey(tasks[c].password, Load(c, "salt"))
       IN  IF ~key.ok
           THEN /\ tasks' = [tasks EXCEPT ![c].pc = "done",
                               ![c].out = CatchAs("Failed to encrypt file: ",
                                                  "ENCRYPTION_FAILED",
                                                  key.error)]
                /\ locals' = locals
           ELSE /\ tasks' = [tasks EXCEPT ![c].pc = "readFile"]
                /\ locals' = Save(locals, c, "key", key.value)
    /\ UNCHANGED <<codecVars, faults, clientVars>>

\* fileToArrayBuffer settles; crypto.subtle.encrypt is awaited
EncryptReads(c) ==
    /\ tasks[c].pc = "readFile"
    /\ tasks' = [tasks EXCEPT ![c].pc = "encrypt"]
    /\ locals' = Save(locals, c, "fileData", tasks[c].file)
    /\ UNCHANGED <<codecVars, faults, clientVars>>

\* crypto.subtle.encrypt settles; encryptFile returns { iv, salt,
\* ciphertext }
EncryptCiphers(c) ==
    /\ tasks[c].pc = "encrypt"
    /\ LET ct == AesGcmEncrypt(Load(c, "key"), Load(c, "iv"), TAG_LENGTH,
                               Load(c, "fileData"))
       IN  /\ tasks' = [tasks EXCEPT ![c].pc = "done",
                           ![c].out = Return([iv |-> Load(c, "iv"),
                                              salt |-> Load(c, "salt"),
                                              ciphertext |-> ct])]
           /\ sealed' = sealed \cup
                 { [key |-> Load(c, "key"), iv |-> Load(c, "iv"),
                    pt |-> Load(c, "fileData"), ct |-> ct] }
    /\ UNCHANGED <<encs, buf, parts, rebuilt, res, faults, clientVars,
                   locals>>

\* decryptFile is called on the container task d returned; deriveKey is
\* awaited
DecryptBegins(c, d, password) ==
    /\ tasks[c].pc = "idle"
    /\ tasks[d].pc = "done"
    /\ tasks[d].kind = "encryptFile"
    /\ tasks[d].out.ok
    /\ tasks' = [tasks EXCEPT ![c] =
                   [kind |-> "decryptFile", pc |-> "deriveKey",
                    encryptedFile |-> tasks[d].out.value, src |-> d,
                    password |-> password,
                    overlap |-> \E e \in Calls : Active(e),
                    out |-> None]]
    /\ UNCHANGED <<codecVars, faults, clientVars, locals>>

\* deriveKey settles; crypto.subtle.decrypt is awaited
DecryptDerives(c) ==
    /\ tasks[c].pc = "deriveKey"
    /\ tasks[c].kind = "decryptFile"
    /\ LET key == deriveKey(tasks[c].password, tasks[c].encryptedFile.salt)
       IN  IF ~key.ok
           THEN /\ tasks' = [tasks EXCEPT ![c].pc = "done",
                               ![c].out = decryptWith(key,
                                                      tasks[c].encryptedFile)]
                /\ locals' = locals
           ELSE /\ tasks' = [tasks EXCEPT ![c].pc = "decrypt"]
                /\ locals' = Save(locals, c, "key", key.value)
    /\ UNCHANGED <<codecVars, faults, clientVars>>

\* crypto.subtle.decrypt settles; decryptFile returns or throws
DecryptCiphers(c) ==
    /\ tasks[c].pc = "decrypt"
    /\ tasks' = [tasks EXCEPT ![c].pc = "done",
                    ![c].out = decryptWith(Return(Load(c, "key")),
                                           tasks[c].encryptedFile)]
    /\ UNCHANGED <<codecVars, faults, clientVars, locals>>

InitConcurrent ==
    /\ sealed = {}
    /\ encs = <<>>
    /\ buf = None
    /\ parts = None
    /\ rebuilt = None
    /\ res = None
    /\ faults = {}
    /\ programId = Unset
    /\ store = <<>>
    /\ made = <<>>
    /\ call = None
    /\ tasks = [c \in Calls |-> [pc |-> "idle"]]
    /\ locals = <<>>

\* encryptFile and decryptFile calls started at any moment and interleaved
\* at their awaits
NextConcurrent ==
    \/ \E c \in Calls, iv \in Nonces, salt \in OneOf(Salts) :
          EncryptBegins(c, FileFor(c), <<97>>, iv, salt)
    \/ \E c \in Calls : EncryptDerives(c)
    \/ \E c \in Calls : EncryptReads(c)
    \/ \E c \in Calls : EncryptCiphers(c)
    \/ \E c \in Calls, d \in Calls, password \in {<<97>>, <<98>>} :
          DecryptBegins(c, d, password)
    \/ \E c \in Calls : DecryptDerives(c)
    \/ \E c \in Calls : DecryptCiphers(c)

SpecConcurrent == InitConcurrent /\ [][NextConcurrent]_vars

---------------------------------------------------------------------------
(* Properties of the codec *)

\* the failure decryptFile reports when the cipher refuses the container
DecryptionFailed ==
    Throw(EncryptionError(
       "Failed to decrypt file: The operation failed for an operation-specific reason",
       "DECRYPTION_FAILED"))

Malformed ==
    Throw(EncryptionError("Invalid encrypted data: too short",
                          "INVALID_ENCRYPTED_DATA"))

HasRes(op) == res # None /\ res.op = op

\* the buffer in flight is the serialized output of an encryption
FromEncryption == buf # None /\ buf.src > 0

\* C1: decryptFile(encryptFile(p, w), w) returns exactly p, for every
\* plaintext (the empty one included) and every password, whatever else
\* has been encrypted since.
C1_RoundTrip ==
    /\ \A i \in 1..Len(encs) :
          decryptFile(encs[i].out.value, encs[i].password)
             = Return(encs[i].file)
    /\ (HasRes("decryptStored") /\ res.password = encs[res.src].password)
          => res.out = Return(encs[res.src].file)

\* a second encryption has happened and the first container, of a non-empty
\* plaintext, was decrypted with its password
C1_Witness ==
    /\ Len(encs) = 2
    /\ HasRes("decryptStored")
    /\ res.src = 1
    /\ res.password = encs[1].password
    /\ encs[1].file # <<>>
    /\ res.out.ok

\* C2: decryptFile(encryptFile(p, w1), w2) with w2 # w1 reports a decryption
\* failure and returns no plaintext.
C2_WrongPasswordFails ==
    (HasRes("decryptStored") /\ res.password # encs[res.src].password)
       => res.out = DecryptionFailed

\* the passwords PBKDF2 cannot tell apart: the same HMAC key block
SameKeyMaterial(w1, w2) ==
    ImportPasswordKey(TextEncode(w1)) = ImportPasswordKey(TextEncode(w2))

\* what the code does in place of C2: decryptFile(encryptFile(p, w1), w2)
\* reports a decryption failure whenever w1 and w2 give PBKDF2 different key
\* material; two distinct passwords with the same key material (equal UTF-8
\* bytes up to trailing zero bytes) decrypt each other's containers.
C2_DistinctKeyMaterialFails ==
    HasRes("decryptStored")
       => IF SameKeyMaterial(res.password, encs[res.src].password)
          THEN res.out = Return(encs[res.src].file)
          ELSE res.out = DecryptionFailed

\* a container of a second encryption was refused under a password with
\* other key material
C2_Witness ==
    /\ Len(encs) = 2
    /\ HasRes("decryptStored")
    /\ res.src = 2
    /\ ~SameKeyMaterial(res.password, encs[2].password)
    /\ res.out = DecryptionFailed

HEADER == IV_LENGTH + SALT_LENGTH

Flipped == FromEncryption /\ buf.flip # None /\ "offset" \in DOMAIN buf.flip

\* splitEncryptedParts then decryptFile on bytes
SplitAndDecrypt(bytes, password) ==
    LET split == splitEncryptedParts(bytes)
    IN  IF split.ok THEN decryptFile(split.value, password) ELSE split

\* bytes with the given bit of the byte at the 0-based offset inverted
WithBitFlipped(bytes, offset, bit) ==
    [bytes EXCEPT ![offset + 1] = FlipBitOf(@, bit)]

\* C3: a serialized output of encryptFile with one bit inverted at an offset
\* >= 28 (ciphertext or tag) is split without complaint and then refused by
\* decryptFile under the correct password.
C3_TamperDetected ==
    /\ (HasRes("decryptFile") /\ Flipped /\ buf.flip.offset >= HEADER
           /\ res.password = encs[buf.src].password)
          => (parts.ok /\ res.out = DecryptionFailed)
    /\ (FromEncryption /\ buf.flip = None /\ parts = None)
          => \A offset \in HEADER..(Len(buf.bytes) - 1), bit \in 0..7 :
                SplitAndDecrypt(WithBitFlipped(buf.bytes, offset, bit),
                                encs[buf.src].password) = DecryptionFailed

\* the last tag bit of the first of two blobs was inverted and the correct
\* password was refused
C3_Witness ==
    /\ Len(encs) = 2
    /\ HasRes("decryptFile")
    /\ Flipped
    /\ buf.src = 1
    /\ buf.flip.offset = Len(buf.bytes) - 1
    /\ buf.flip.bit = 0
    /\ res.password = encs[1].password
    /\ res.out = DecryptionFailed

\* C4: decryptFile with the original password refuses a container whose
\* nonce or salt is not the one produced at encryption time (one bit
\* inverted in bytes 0..27 of the blob, or the field replaced by another
\* output of the random source) and returns no bytes.
C4_HeaderCorruptionDetected ==
    /\ (HasRes("decryptFile") /\ Flipped /\ buf.flip.offset < HEADER
           /\ res.password = encs[buf.src].password)
          => (parts.ok /\ res.out = DecryptionFailed)
    /\ (FromEncryption /\ buf.flip = None /\ parts = None)
          => \A offset \in 0..(HEADER - 1), bit \in 0..7 :
                SplitAndDecrypt(WithBitFlipped(buf.bytes, offset, bit),
                                encs[buf.src].password) = DecryptionFailed
    /\ \A i \in 1..Len(encs) :
          \A iv \in RandomBytes(IV_LENGTH), salt \in RandomBytes(SALT_LENGTH) :
             (iv # encs[i].out.value.iv \/ salt # encs[i].out.value.salt)
                => decryptFile([iv |-> iv, salt |-> salt,
                                ciphertext |-> encs[i].out.value.ciphertext],
                               encs[i].password) = DecryptionFailed

\* a salt bit of a blob was inverted and the original password was refused
C4_Witness ==
    /\ HasRes("decryptFile")
    /\ Flipped
    /\ buf.flip.offset >= IV_LENGTH
    /\ buf.flip.offset < HEADER
    /\ res.password = encs[buf.src].password
    /\ parts.value.salt # encs[buf.src].out.value.salt
    /\ res.out = DecryptionFailed

Range(f) == { f[i] : i \in DOMAIN f }

\* C5: splitEncryptedParts on fewer than 28 bytes fails with
\* INVALID_ENCRYPTED_DATA, and download of such a buffer ends with that
\* error without calling decryptFile.
C5_MinimumLength ==
    /\ \A b \in ArbitraryBuffers :
          Len(b) < HEADER => splitEncryptedParts(b) = Malformed
    /\ (parts # None /\ Len(buf.bytes) < HEADER) => parts = Malformed
    /\ HasRes("decryptFile") => Len(buf.bytes) >= HEADER
    /\ (HasRes("download") /\ Len(buf.bytes) < HEADER)
          => /\ "decryptFile" \notin Range(res.calls)
             /\ res.calls # <<>> => res.out = Malformed

\* a download was served 27 bytes and ended with the malformed error
C5_Witness ==
    /\ HasRes("download")
    /\ Len(buf.bytes) = HEADER - 1
    /\ res.calls = <<"storage.download", "splitEncryptedParts">>
    /\ res.out = Malformed

\* C6: exactly 28 bytes are split into a 12-byte nonce, a 16-byte salt and
\* an empty ciphertext, and decryptFile refuses that container under every
\* password.
C6_ExactMinimum ==
    /\ (parts # None /\ Len(buf.bytes) = HEADER)
          => /\ parts.ok
             /\ parts.value = [iv |-> SubSeq(buf.bytes, 1, IV_LENGTH),
                               salt |-> SubSeq(buf.bytes, IV_LENGTH + 1, HEADER),
                               ciphertext |-> <<>>]
             /\ \A w \in Passwords :
                   decryptFile(parts.value, w) = DecryptionFailed
    /\ (HasRes("decryptFile") /\ Len(buf.bytes) = HEADER)
          => res.out = DecryptionFailed

\* a blob cut down to its nonce and salt was split and then refused under
\* the password it was encrypted with
C6_Witness ==
    /\ HasRes("decryptFile")
    /\ FromEncryption
    /\ Len(buf.bytes) = HEADER
    /\ parts.ok
    /\ res.password = encs[buf.src].password
    /\ res.out = DecryptionFailed

\* C7: combineEncryptedParts(splitEncryptedParts(b)) is b byte for byte for
\* every buffer of at least 28 bytes, valid ciphertext or not.
C7_FormatStability ==
    /\ rebuilt # None => (Len(buf.bytes) >= HEADER /\ rebuilt = buf.bytes)
    /\ \A b \in ArbitraryBuffers :
          Len(b) >= HEADER
             => combineEncryptedParts(splitEncryptedParts(b).value) = b

\* a buffer that is no ciphertext, longer than 28 bytes, was split and
\* recombined
C7_Witness ==
    /\ rebuilt # None
    /\ buf.src = 0
    /\ Len(buf.bytes) > HEADER
    /\ rebuilt = buf.bytes

\* C8: the blob is nonce || salt || ciphertext and nothing else; the split
\* reads bytes [0,12), [12,28) and [28,end); so splitting a combined
\* container gives the container back field by field.
C8_WireLayout ==
    /\ (FromEncryption /\ buf.flip = None)
          => LET c == encs[buf.src].out.value
             IN  /\ buf.bytes = c.iv \o c.salt \o c.ciphertext
                 /\ parts # None => parts = Return(c)
    /\ (parts # None /\ parts.ok)
          => parts.value =
                [iv |-> SubSeq(buf.bytes, 1, IV_LENGTH),
                 salt |-> SubSeq(buf.bytes, IV_LENGTH + 1, HEADER),
                 ciphertext |-> SubSeq(buf.bytes, HEADER + 1, Len(buf.bytes))]
    /\ rebuilt # None => splitEncryptedParts(rebuilt) = parts

\* the container of a non-empty plaintext was combined and split again
C8_Witness ==
    /\ FromEncryption
    /\ buf.flip = None
    /\ parts # None
    /\ encs[buf.src].file # <<>>
    /\ parts = Return(encs[buf.src].out.value)

Blob(i) == combineEncryptedParts(encs[i].out.value)

\* two successive encryptFile calls with the same plaintext and password
Successive ==
    /\ Len(encs) = 2
    /\ encs[1].file = encs[2].file
    /\ encs[1].password = encs[2].password

\* C9 (as stated): two successive encryptFile(p, w) calls never produce the
\* same nonce or the same salt, and their serialized outputs differ.
C9_NeverRepeats ==
    Successive
       => /\ encs[1].out.value.iv # encs[2].out.value.iv
          /\ encs[1].out.value.salt # encs[2].out.value.salt
          /\ Blob(1) # Blob(2)

\* C9 (amended): the nonce and the salt of every container are the values
\* the random source returned inside that encryptFile call; nothing detects
\* a repetition, so two successive calls with the same plaintext and
\* password give different serialized outputs exactly when the random
\* source gave them a different nonce or a different salt.
C9_FreshPerCall ==
    /\ \A i \in 1..Len(encs) :
          /\ encs[i].out.value.iv \in RandomBytes(IV_LENGTH)
          /\ encs[i].out.value.salt \in RandomBytes(SALT_LENGTH)
    /\ Successive
          => ((encs[1].out.value.iv # encs[2].out.value.iv
                 \/ encs[1].out.value.salt # encs[2].out.value.salt)
              <=> Blob(1) # Blob(2))

\* two successive calls drew different nonces and the same salt
C9_Witness ==
    /\ Successive
    /\ encs[1].out.value.iv # encs[2].out.value.iv
    /\ encs[1].out.value.salt = encs[2].out.value.salt
    /\ Blob(1) # Blob(2)

\* C10: every container encryptFile returns has a 12-byte nonce, a 16-byte
\* salt and Len(plaintext) + 16 bytes of ciphertext; its blob has
\* Len(plaintext) + 44 bytes and passes the length check of
\* splitEncryptedParts.
C10_ContainerLengths ==
    \A i \in 1..Len(encs) :
       LET c == encs[i].out.value
       IN  /\ encs[i].out.ok
           /\ Len(c.iv) = 12
           /\ Len(c.salt) = 16
           /\ Len(c.ciphertext) = Len(encs[i].file) + 16
           /\ Len(Blob(i)) = Len(encs[i].file) + 44
           /\ splitEncryptedParts(Blob(i)).ok

\* containers of an empty and of a longest plaintext exist
C10_Witness ==
    /\ Len(encs) = 2
    /\ encs[1].file = <<>>
    /\ Len(encs[2].file) = MaxPlainLen
    /\ Len(Blob(2)) = MaxPlainLen + 44

---------------------------------------------------------------------------
(* Failure reporting *)

ErrorCode(out) == IF out.ok THEN "" ELSE out.error.code

\* C11: the three failure kinds are told apart by cause: ENCRYPTION_FAILED
\* is reported by encryptFile for a failure of the encrypt path,
\* INVALID_ENCRYPTED_DATA by splitEncryptedParts for a buffer under 28
\* bytes, and DECRYPTION_FAILED by decryptFile for a failed integrity check
\* and for nothing else, a key derivation failure included.
C11_KindsByCause ==
    /\ \A i \in 1..Len(encs) :
          /\ encs[i].out.ok <=> (faults \cap EncryptFaults = {})
          /\ ~encs[i].out.ok
                => /\ encs[i].out.error.name = "EncryptionError"
                   /\ encs[i].out.error.code = "ENCRYPTION_FAILED"
    /\ parts # None
          => /\ parts.ok <=> Len(buf.bytes) >= HEADER
             /\ ~parts.ok => parts = Malformed
    /\ HasRes("decryptFile")
          => /\ ErrorCode(res.out) \in {"", "DECRYPTION_FAILED"}
             /\ ErrorCode(res.out) = "DECRYPTION_FAILED"
                   => faults \cap DecryptFaults = {}

\* C12: on one container produced by encryptFile, an attempt that fails
\* because the password is wrong and an attempt that fails because a bit of
\* the nonce, the salt, the ciphertext or the tag was inverted give the
\* caller the same error: name, code and message.
C12_FailureHidesCause ==
    /\ (FromEncryption /\ buf.flip = None /\ parts = None)
          => LET c == encs[buf.src]
             IN  \A w \in Passwords :
                   \A offset \in 0..(Len(buf.bytes) - 1), bit \in 0..7 :
                      LET wrong   == decryptFile(c.out.value, w)
                          corrupt == SplitAndDecrypt(
                                        WithBitFlipped(buf.bytes, offset, bit),
                                        c.password)
                      IN  (w # c.password /\ ~wrong.ok /\ ~corrupt.ok)
                             => wrong.error = corrupt.error
    /\ (HasRes("decryptFile") /\ Flipped /\ ~res.out.ok
           /\ res.password = encs[buf.src].password)
          => \A w \in Passwords :
                LET wrong == decryptFile(encs[buf.src].out.value, w)
                IN  (w # encs[buf.src].password /\ ~wrong.ok)
                       => wrong.error = res.out.error

\* a blob with a nonce bit inverted was refused under its own password, and
\* the intact container is refused under another password
C12_Witness ==
    /\ HasRes("decryptFile")
    /\ Flipped
    /\ buf.flip.offset < IV_LENGTH
    /\ res.password = encs[buf.src].password
    /\ ~res.out.ok
    /\ ~decryptFile(encs[buf.src].out.value, <<98>>).ok
    /\ encs[buf.src].password # <<98>>

---------------------------------------------------------------------------
(* Properties of the client *)

\* the call in progress or last finished is the client method op
Calling(op) == call # None /\ call.op = op

Done == call # None /\ call.pc = "done"

\* the requests that leave the process
StorageRequests == {"storage.upload", "storage.download"}
ChainRequests   == {"getLatestBlockhash", "signTransaction",
                    "sendRawTransaction", "confirmTransaction"}

\* C13: when the random source, key derivation, the file read or the
\* cipher fails, encryptFile throws ENCRYPTION_FAILED and returns nothing,
\* and an upload whose encryption failed ends with that error having made
\* no storage request and no blockchain call; nothing is stored.
C13_AllOrNothing ==
    /\ \A file \in Plaintexts, iv \in Nonces, salt \in Salts :
          LET r == encryptFile(file, <<97>>, iv, salt)
          IN  faults # {}
                 => /\ DOMAIN r = {"ok", "error"}
                    /\ ~r.ok
                    /\ r.error.name = "EncryptionError"
                    /\ r.error.code = "ENCRYPTION_FAILED"
    /\ (Calling("upload") /\ validateUploadOptions(call.options).ok
           /\ faults # {})
          => /\ Done
             /\ ErrorCode(call.out) = "ENCRYPTION_FAILED"
             /\ made = <<"encryptFile">>
    /\ faults # {} => (DOMAIN store = {} /\ sealed = {})

\* an upload with valid options ended in ENCRYPTION_FAILED because the file
\* could not be read, with a program ID set
C13_Witness ==
    /\ Calling("upload")
    /\ Done
    /\ faults = {"FileReader"}
    /\ programId # Unset
    /\ ErrorCode(call.out) = "ENCRYPTION_FAILED"
    /\ made = <<"encryptFile">>

\* C15: a decryptFile call repeated with the identical container and
\* password has the identical outcome, the same bytes or the same failure,
\* whatever was encrypted in between; and the key the decrypt path derives
\* for a container is the key its encryption used, from 100,000 iterations
\* and 256 bits on both paths.
C15_DecryptDeterministic ==
    /\ (HasRes("decryptStored") /\ "repeat" \in DOMAIN res)
          => res.repeat = res.out
    /\ \A i \in 1..Len(encs) :
          encs[i].out.ok
             => LET key == deriveKey(encs[i].password, encs[i].out.value.salt)
                IN  /\ key.ok
                    /\ key.value.iterations = 100000
                    /\ key.value.length = 256
                    /\ \E r \in sealed :
                          /\ r.key = key.value
                          /\ r.iv = encs[i].out.value.iv
                          /\ r.ct = encs[i].out.value.ciphertext

\* the first container was decrypted, a second encryption with another salt
\* followed, and the repeated decryption returned the plaintext again
C15_Witness ==
    /\ HasRes("decryptStored")
    /\ "repeat" \in DOMAIN res
    /\ res.src = 1
    /\ res.since = 1
    /\ encs[2].out.value.salt # encs[1].out.value.salt
    /\ res.out = Return(encs[1].file)
    /\ res.repeat = res.out

\* the download in progress or finished was given the file ID and the
\* password of the upload that returned just before it
DownloadOfUpload ==
    /\ Calling("download")
    /\ call.after # None
    /\ call.options.fileId = call.after.fileId
    /\ call.options.password = call.after.password
    /\ validateDownloadOptions(call.options).ok

\* C16: a download given the file ID an upload returned, and the same
\* password, asks the storage service for the CID the blob was stored
\* under, whatever CID that is, and returns the uploaded bytes.
C16_ClientRoundTrip ==
    /\ \A cid \in DOMAIN store :
          extractCIDFromFileId(generateFileId(cid)) = cid
    /\ DownloadOfUpload
          => /\ call.cid = call.after.cid
             /\ (Done /\ "decryptFile" \in Range(made))
                   => call.out = Return(call.after.file)

\* the calls and requests of a complete upload, in order
UploadSteps ==
    <<"encryptFile", "combineEncryptedParts", "storage.upload",
      "initializeFile", "getLatestBlockhash", "signTransaction",
      "sendRawTransaction", "confirmTransaction">>

IsPrefix(p, q) == Len(p) <= Len(q) /\ p = SubSeq(q, 1, Len(p))

\* the state part of C17
UploadOrdered ==
    Calling("upload")
       => /\ IsPrefix(made, UploadSteps)
          /\ "initializeFile" \in Range(made)
                => (call.cid # <<>> /\ call.cid \in DOMAIN store)
          /\ (Done /\ call.out.ok /\ "initializeFile" \notin Range(made))
                => /\ call.out.value.signature = ""
                   /\ Range(made) \cap ChainRequests = {}
          /\ (Done /\ ErrorCode(call.out) = "UPLOAD_FAILED")
                => /\ "initializeFile" \notin Range(made)
                   /\ Range(made) \cap ChainRequests = {}

\* the step part of C17: what the upload does the moment the storage
\* service has settled
UploadThenInitialize ==
    (Calling("upload") /\ call.pc = "storage.upload")
       => /\ "initializeFile" \in Range(made')
                => (programId # Unset /\ call'.cid \in DOMAIN store')
          /\ (programId = Unset /\ call'.cid # <<>>)
                => /\ call'.pc = "done"
                   /\ call'.out.ok
                   /\ call'.out.value.signature = ""
                   /\ made' = made

\* C17: upload goes encrypt, combine, storage upload, initializeFile, in
\* that order; initializeFile is entered only once the storage service has
\* returned a CID and only if a program ID is set at that moment; with no
\* program ID set then, upload succeeds with the empty signature and no
\* transaction; after a failed storage upload no transaction is submitted.
C17_UploadOrder == []UploadOrdered /\ [][UploadThenInitialize]_vars

\* an upload went through all its steps and returned a signature
C17_Witness ==
    /\ Calling("upload")
    /\ Done
    /\ call.out.ok
    /\ call.out.value.signature = "signature"
    /\ made = UploadSteps

ClientMethods == {"upload", "download", "share", "revoke"}

\* the required options of a client method, in the order they are checked,
\* each with the code reported when it is missing
Required(op) ==
    CASE op = "upload" ->
            <<[field |-> "file",      code |-> "MISSING_FILE"],
              [field |-> "password",  code |-> "MISSING_PASSWORD"],
              [field |-> "wallet",    code |-> "MISSING_WALLET"]>>
      [] op = "download" ->
            <<[field |-> "fileId",    code |-> "MISSING_FILE_ID"],
              [field |-> "password",  code |-> "MISSING_PASSWORD"],
              [field |-> "wallet",    code |-> "MISSING_WALLET"]>>
      [] op \in {"share", "revoke"} ->
            <<[field |-> "fileId",    code |-> "MISSING_FILE_ID"],
              [field |-> "recipient", code |-> "MISSING_RECIPIENT"],
              [field |-> "wallet",    code |-> "MISSING_WALLET"]>>

\* the option is absent, empty, or a wallet whose publicKey is null
Missing(options, field) ==
    CASE field = "file"      -> options.file = None
      [] field = "fileId"    -> options.fileId = <<>>
      [] field = "password"  -> options.password = <<>>
      [] field = "recipient" -> options.recipient = Unset
      [] field = "wallet"    -> options.wallet \in {"none", "nokey"}

\* the positions of the required options that are missing
MissingAt(op, options) ==
    { i \in 1..Len(Required(op)) : Missing(options, Required(op)[i].field) }

\* C18: upload, download, share and revoke check their options before
\* anything else: when a required option is missing the call ends with a
\* ValidationError whose code is that of the first missing one (file or
\* file ID, then password or recipient, then wallet) and has made no
\* encryption, storage request or blockchain call; otherwise it goes on.
C18_ValidationFirst ==
    (call # None /\ call.op \in ClientMethods)
       => LET miss == MissingAt(call.op, call.options)
          IN  IF miss # {}
              THEN /\ Done
                   /\ ~call.out.ok
                   /\ call.out.error.name = "ValidationError"
                   /\ call.out.error.code =
                         Required(call.op)[CHOOSE i \in miss :
                                             \A j \in miss : i <= j].code
                   /\ made = <<>>
              ELSE /\ made # <<>>
                   /\ Done => (call.out.ok
                                 \/ call.out.error.name # "ValidationError")

\* a revoke without recipient and without a connected wallet was refused
\* for the recipient
C18_Witness ==
    /\ Calling("revoke")
    /\ Done
    /\ call.options.fileId # <<>>
    /\ call.options.recipient = Unset
    /\ call.options.wallet = "nokey"
    /\ ErrorCode(call.out) = "MISSING_RECIPIENT"
    /\ made = <<>>

\* the call is one of a SolanaService method, made directly or by the client
InTx == call # None /\ call.method \in TxMethods

\* the state part of C19
PreconditionFailures ==
    /\ (InTx /\ Done
           /\ ErrorCode(call.out) \in {"WALLET_NOT_CONNECTED",
                                        "PROGRAM_ID_NOT_SET"})
          => /\ call.out.error.name = "SolanaError"
             /\ Range(made) \cap ChainRequests = {}
    /\ (InTx /\ call.wallet = "nokey")
          => (Done /\ ErrorCode(call.out) = "WALLET_NOT_CONNECTED")
    /\ (Calling("upload") /\ Done)
          => ErrorCode(call.out) # "PROGRAM_ID_NOT_SET"

\* the step part of C19: what happens the moment a SolanaService method is
\* entered
PreconditionsFirst ==
    (call' # call /\ call'.method \in TxMethods
        /\ (Idle \/ call.pc = "storage.upload"))
       => IF call'.wallet = "nokey"
          THEN /\ call'.pc = "done"
               /\ ErrorCode(call'.out) = "WALLET_NOT_CONNECTED"
               /\ Range(made') \cap ChainRequests = {}
          ELSE IF programId = Unset
          THEN /\ call'.op \in {"share", "revoke"} \cup TxMethods
               /\ call'.pc = "done"
               /\ ErrorCode(call'.out) = "PROGRAM_ID_NOT_SET"
               /\ Range(made') \cap ChainRequests = {}
          ELSE /\ call'.pc = "blockhash"
               /\ made'[Len(made')] = "getLatestBlockhash"

\* C19: initializeFile, grantAccess and revokeAccess check the wallet's
\* public key, then the program ID, before any request: the failure is
\* WALLET_NOT_CONNECTED, else PROGRAM_ID_NOT_SET, with no blockhash
\* fetched, nothing signed and nothing sent; so share and revoke with valid
\* options fail with PROGRAM_ID_NOT_SET while no program ID is set, and
\* upload never does.
C19_SolanaPreconditions ==
    []PreconditionFailures /\ [][PreconditionsFirst]_vars

\* a share with valid options failed for the missing program ID before any
\* request
C19_Witness ==
    /\ Calling("share")
    /\ Done
    /\ validateShareOptions(call.options).ok
    /\ ErrorCode(call.out) = "PROGRAM_ID_NOT_SET"
    /\ made = <<"grantAccess">>

\* C20: with a wallet that has a public key and no signTransaction,
\* initializeFile, grantAccess and revokeAccess send no transaction, and
\* once past their preconditions and the blockhash request they fail with
\* a SolanaError of code SIGNING_NOT_SUPPORTED.
C20_SigningNotSupported ==
    (InTx /\ call.wallet = "nosign" /\ Done)
       => /\ ~call.out.ok
          /\ call.out.error.name = "SolanaError"
          /\ "sendRawTransaction" \notin Range(made)
          /\ (/\ ErrorCode(call.out) # "PROGRAM_ID_NOT_SET"
              /\ call.out # TxCatch(call.method,
                                    Rejected("getLatestBlockhash")))
                => ErrorCode(call.out) = "SIGNING_NOT_SUPPORTED"

---------------------------------------------------------------------------
(* Properties of concurrent calls *)

Finished(c, kind) == tasks[c].pc = "done" /\ tasks[c].kind = kind

\* C14: however encryptFile and decryptFile calls on one instance are
\* interleaved, each returns what its own arguments and its own random
\* draws determine: a container carries the nonce and the salt drawn in
\* its call and decrypts under its password to its plaintext, and a
\* decryption returns what decryptFile gives for its container and
\* password.
C14_CallsIndependent ==
    \A c \in Calls :
       /\ Finished(c, "encryptFile")
             => /\ tasks[c].out.ok
                /\ tasks[c].out.value.iv = tasks[c].iv
                /\ tasks[c].out.value.salt = tasks[c].salt
                /\ tasks[c].out =
                      encryptFile(tasks[c].file, tasks[c].password,
                                  tasks[c].iv, tasks[c].salt)
                /\ decryptFile(tasks[c].out.value, tasks[c].password)
                      = Return(tasks[c].file)
       /\ Finished(c, "decryptFile")
             => /\ tasks[c].out =
                      decryptFile(tasks[c].encryptedFile, tasks[c].password)
                /\ tasks[c].password = tasks[tasks[c].src].password
                      => tasks[c].out = Return(tasks[tasks[c].src].file)

\* two encryptions with different nonces overlapped, and a decryption of
\* the first container that overlapped another call returned its plaintext
C14_Witness ==
    /\ Finished(1, "encryptFile")
    /\ Finished(2, "encryptFile")
    /\ tasks[2].overlap
    /\ tasks[1].iv # tasks[2].iv
    /\ Finished(3, "decryptFile")
    /\ tasks[3].src = 1
    /\ tasks[3].overlap
    /\ tasks[3].out = Return(tasks[1].file)

============================================================================
